---- MODULE Spec2Model ----
(***************************************************************************)
(* Model of the frame-sampling pipeline of inshorts_organize_data:         *)
(*   src/frame_extractor.py  save_mov_frame, extract_frames,               *)
(*                           organize_frame_folders                        *)
(*   src/video_trimmer.py    trim_video_with_copy, main                    *)
(*                                                                         *)
(* A frame file NNNNNNNN.tiff is modelled by its number NNNNNNNN (1, 2, ..)*)
(* so that the lexicographic order of the zero-padded names is the order   *)
(* of the numbers.                                                         *)
(***************************************************************************)
EXTENDS Integers, Sequences, FiniteSets, TLC

VARIABLES
    \* Frame Selector (organize_frame_folders)
    root,       \* frames_root: the per-video entries, in iterdir() order
    before,     \* history: root as it was when the current Selector run began
    orgPos,     \* 1-based position of the next entry of the loop
    orgStatus,  \* "idle" | "running" | "done" | "raised"
    orgError,   \* the exception that left the loop, "" when none
    orgRun,     \* number of invocations of organize_frame_folders so far
    prevStatus, \* history: orgStatus at the end of the previous invocation
    \* Frame-Count Cataloger (save_mov_frame)
    listing,    \* os.listdir(folder_path): the files of the input directory
    catPos,     \* 1-based position of the next file of the loop
    catStatus,  \* "idle" | "running" | "done"
    manifest,   \* the lines written to the manifest file
    \* Frame Extractor (extract_frames)
    exPos,      \* 1-based position of the next manifest line of the loop
    exStatus,   \* "idle" | "running" | "done" | "raised"
    exError,    \* the exception that left the loop, "" when none
    exLog,      \* per handled line: the message printed, the position in root
                \* of the folder left (0 if none), whether a scratch copy is left
    \* Range Trimmer (video_trimmer.main)
    trimArgs,   \* the parsed command line and whether the input file exists
    trimPc,     \* "idle" | "main" | "trim" | "exited"
    trimResult, \* "none" | "ok" | "failed" (exit status # 0) | "error" (raised)
    output_path,\* the output path handed to the transcoder
    exitCode    \* the exit code of the process, -1 while it runs

selVars  == <<root, before, orgPos, orgStatus, orgError, orgRun, prevStatus>>
pipeVars == <<listing, catPos, catStatus, manifest, exPos, exStatus, exError, exLog>>
trimVars == <<trimArgs, trimPc, trimResult, output_path, exitCode>>
vars == <<selVars, pipeVars, trimVars>>

----------------------------------------------------------------------------
(* Bounds of the model. *)

\* largest number of frame files extracted into one per-video folder
MaxA == 54

\* number of invocations of organize_frame_folders on the same frames_root
MaxRuns == 2

\* nominal frame counts (nb_frames of the sidecar): both ends of every row
\* of the rule table, and the two sides of the removal guard
NVals == {4, 5, 6, 9, 10, 19, 20, 24, 25, 249, 250, 599, 600, 700}

----------------------------------------------------------------------------
(* Helpers standing for Python built-ins. *)

\* range(a, b) as the sequence of its values
Range(a, b) == [i \in 1..(IF b > a THEN b - a ELSE 0) |-> a + i - 1]

Min(S) == CHOOSE x \in S : \A y \in S : x <= y

\* sorted(S) for a finite set of numbers
RECURSIVE Sorted(_)
Sorted(S) == IF S = {} THEN << >> ELSE <<Min(S)>> \o Sorted(S \ {Min(S)})

----------------------------------------------------------------------------
(* An entry of frames_root.                                                *)
(*   kind     "file" (not a directory) | "dir" | "gone" (removed)          *)
(*   sidecar  state of source.txt: "missing", "badjson" (text after        *)
(*            [Metadata] is not JSON), "nonint" (nb_frames is not an       *)
(*            integer), "nokey" (no nb_frames field), "ok"                 *)
(*   nb       the nb_frames value of an "ok" sidecar                       *)
(*   loose    the *.tiff files at the top level of the folder              *)
(*   subs     the numbered subfolders 001, 002, .. and the files in each   *)
(***************************************************************************)
Entry(k, sc, n, fr, sb) == [kind |-> k, sidecar |-> sc, nb |-> n, loose |-> fr, subs |-> sb]

PlainFile == Entry("file", "missing", 0, {}, << >>)
Gone      == Entry("gone", "missing", 0, {}, << >>)

\* a per-video folder as the Extractor leaves it: sidecar, and A frames 1..A
Extracted(sc, n, A) == Entry("dir", sc, n, 1..A, << >>)

\* mutant: only the JSON error is caught, a non-integer count is read as 0
ParseFails_OnlyJson(e) == e.sidecar = "badjson"

\* json.loads + int(meta.get("nb_frames", 0)): does it raise?
ParseFails(e) == e.sidecar \in {"badjson", "nonint"}

\* total_frames = int(meta.get("nb_frames", 0))
total_frames(e) == IF e.sidecar = "nokey" THEN 0 ELSE e.nb

\* frame_files = sorted(folder.glob("*.tiff"))
frame_files(e) == Sorted(e.loose)

\* total_available = len(frame_files)
total_available(e) == Cardinality(e.loose)

\* mutant: "and" for "or"
RemovalGuard_And(N, A) == A < 5 /\ N <= 5

\* if total_available < 5 or total_frames <= 5: shutil.rmtree(folder)
RemovalGuard(N, A) == A < 5 \/ N <= 5

----------------------------------------------------------------------------
(* move_frames(indices): the working state st is                           *)
(*   [loose, subs, folder_index, err]     err = "" while nothing was raised *)
(* files is the frame_files list computed before any move.                 *)
(***************************************************************************)

\* subfolder.mkdir(exist_ok=True) for the subfolder numbered k
Mkdir(subs, k) == IF k <= Len(subs) THEN subs ELSE Append(subs, {})

\* the for loop of move_frames from position i of indices; shutil.move of a
\* source that is no longer at the top level raises FileNotFoundError
RECURSIVE MoveLoop(_, _, _, _)
MoveLoop(st, files, indices, i) ==
    IF i > Len(indices) \/ st.err # "" THEN st
    ELSE LET idx == indices[i] IN
         IF 0 <= idx /\ idx < Len(files)
         THEN LET src == files[idx + 1] IN
              IF src \in st.loose
              THEN MoveLoop([st EXCEPT !.loose = @ \ {src},
                                       !.subs[st.folder_index] = @ \cup {src}],
                            files, indices, i + 1)
              ELSE [st EXCEPT !.err = "FileNotFoundError"]
         ELSE MoveLoop(st, files, indices, i + 1)

move_frames(st, files, indices) ==
    IF st.err # "" THEN st
    ELSE LET made == [st EXCEPT !.subs = Mkdir(st.subs, st.folder_index)]
             moved == MoveLoop(made, files, indices, 1)
         IN  IF moved.err # "" THEN moved
             ELSE [moved EXCEPT !.folder_index = @ + 1]

\* mutant: the first frame is not skipped
Rule6_FromZero(st, files) == move_frames(st, files, Range(0, 5))

\* 6-9 frames: move_frames(range(1, 6))
Rule6(st, files) == move_frames(st, files, Range(1, 6))

\* mutant: the row's upper end for the available count
Rule10_Literal(st, files, A) == move_frames(st, files, Range(0, 19))

\* 10-19 frames: move_frames(range(0, total_available))
Rule10(st, files, A) == move_frames(st, files, Range(0, A))

\* 20-24 frames: move_frames(range(0, 20))
Rule20(st, files) == move_frames(st, files, Range(0, 20))

\* 25-249 frames: move_frames(range(5, 25))
Rule25(st, files) == move_frames(st, files, Range(5, 25))

\* mutant: a rear window of 20 frames, as the source comment describes it
Rule250_Rear20(st, files, A) ==
    move_frames(move_frames(st, files, Range(5, 26)), files, Range(A - 25, A - 5))

\* 250-599 frames: move_frames(range(5, 26)), then
\* move_frames(range(total_available - 26, total_available - 5))
Rule250(st, files, A) ==
    move_frames(move_frames(st, files, Range(5, 26)), files, Range(A - 26, A - 5))

\* 600+ frames: start is a pair produced by enumerate(), so start + 20
\* raises TypeError in the first iteration, before move_frames is called
Rule600(st, files) == [st EXCEPT !.err = "TypeError"]

\* the if/elif chain on total_frames
ApplyRules(st, files, N, A) ==
    IF 6 <= N /\ N <= 9 THEN Rule6(st, files)
    ELSE IF 10 <= N /\ N <= 19 THEN Rule10(st, files, A)
    ELSE IF 20 <= N /\ N <= 24 THEN Rule20(st, files)
    ELSE IF 25 <= N /\ N <= 249 THEN Rule25(st, files)
    ELSE IF 250 <= N /\ N <= 599 THEN Rule250(st, files, A)
    ELSE IF N >= 600 THEN Rule600(st, files)
    ELSE st

\* for tiff in folder.glob("*.tiff"): tiff.unlink()
Cleanup(st) == IF st.err # "" THEN st ELSE [st EXCEPT !.loose = {}]

\* One iteration of the loop of organize_frame_folders on entry e:
\* the entry afterwards, and the exception that left the loop ("" if none).
OrganizeFolder(e) ==
    IF e.kind # "dir" THEN [entry |-> e, err |-> ""]
    ELSE IF e.sidecar = "missing" THEN [entry |-> e, err |-> ""]
    ELSE IF ParseFails(e) THEN [entry |-> e, err |-> ""]
    ELSE LET N == total_frames(e)
             A == total_available(e)
         IN  IF RemovalGuard(N, A) THEN [entry |-> Gone, err |-> ""]
             ELSE LET st0 == [loose |-> e.loose, subs |-> e.subs,
                              folder_index |-> 1, err |-> ""]
                      st1 == Cleanup(ApplyRules(st0, frame_files(e), N, A))
                  IN  [entry |-> [e EXCEPT !.loose = st1.loose, !.subs = st1.subs],
                       err |-> st1.err]

----------------------------------------------------------------------------
(* The Selector's batch loop. *)

\* for folder in frames_root.iterdir(): one iteration
OrganizeStep ==
    /\ orgStatus = "running"
    /\ orgPos <= Len(root)
    /\ LET r == OrganizeFolder(root[orgPos]) IN
        /\ root' = [root EXCEPT ![orgPos] = r.entry]
        /\ orgStatus' = IF r.err # "" THEN "raised" ELSE "running"
        /\ orgError' = r.err
        /\ orgPos' = IF r.err # "" THEN orgPos ELSE orgPos + 1
    /\ UNCHANGED <<before, orgRun, prevStatus, pipeVars, trimVars>>

\* the loop is exhausted: organize_frame_folders returns
OrganizeReturn ==
    /\ orgStatus = "running"
    /\ orgPos > Len(root)
    /\ orgStatus' = "done"
    /\ UNCHANGED <<root, before, orgPos, orgError, orgRun, prevStatus, pipeVars, trimVars>>

\* organize_frame_folders is called again on the same frames_root; iterdir()
\* lists the entries that still exist
OrganizeAgain ==
    /\ orgStatus \in {"done", "raised"}
    /\ orgRun < MaxRuns
    /\ LET present == SelectSeq(root, LAMBDA e : e.kind # "gone") IN
        /\ root' = present
        /\ before' = present
    /\ orgPos' = 1
    /\ prevStatus' = orgStatus
    /\ orgStatus' = "running"
    /\ orgError' = ""
    /\ orgRun' = orgRun + 1
    /\ UNCHANGED <<pipeVars, trimVars>>

----------------------------------------------------------------------------
(* Specification Spec: the Selector on a frames_root of two entries. One   *)
(* entry ranges over every sidecar state, every nominal count of NVals and *)
(* every available count 0..MaxA; its neighbour ranges over Neighbours.    *)
(***************************************************************************)

\* the Cataloger and the Extractor are not running
PipeIdle ==
    /\ listing = << >> /\ catPos = 1 /\ catStatus = "idle" /\ manifest = << >>
    /\ exPos = 1 /\ exStatus = "idle" /\ exError = "" /\ exLog = << >>

\* the Trimmer is not running
TrimIdle ==
    /\ trimArgs = [input |-> "", exists |-> FALSE, output |-> "", start |-> "", end |-> ""]
    /\ trimPc = "idle" /\ trimResult = "none" /\ output_path = "" /\ exitCode = -1

AnyEntry ==
    {PlainFile}
    \cup {Extracted(sc, 0, A) : sc \in {"missing", "badjson", "nonint", "nokey"}, A \in 0..MaxA}
    \cup {Extracted("ok", N, A) : N \in NVals, A \in 0..MaxA}

Neighbours ==
    {PlainFile, Extracted("missing", 0, 6), Extracted("badjson", 0, 6),
     Extracted("ok", 6, 7), Extracted("ok", 10, 6), Extracted("ok", 4, 7),
     Extracted("ok", 25, 3),
     Extracted("ok", 250, 12), Extracted("ok", 600, 6)}

Init ==
    /\ root \in {<<e, n>> : e \in AnyEntry, n \in Neighbours}
                \cup {<<n, e>> : e \in AnyEntry, n \in Neighbours}
    /\ before = root
    /\ orgPos = 1
    /\ orgStatus = "running"
    /\ orgError = ""
    /\ orgRun = 1
    /\ prevStatus = "idle"
    /\ PipeIdle
    /\ TrimIdle

Next == OrganizeStep \/ OrganizeReturn \/ OrganizeAgain

Spec == Init /\ [][Next]_vars

----------------------------------------------------------------------------
(* The Cataloger: save_mov_frame.                                          *)
(* A file of the input directory is                                        *)
(*   name    "shadow" (starts with "._"), "other" (no .mov extension),     *)
(*           "mov"                                                         *)
(*   colons  number of ':' in its path folder_path / filename              *)
(*   probe   what get_video_meta does on it: "ok" (a record with           *)
(*           nb_frames), "none" (None, or no nb_frames field), "raise"     *)
(*   nbint   whether the probed nb_frames reads as an integer ("N/A" not)  *)
(*   nb      the probed nb_frames                                          *)
(* check_and_fix_permissions (module movdata_forcopy) is taken to return.  *)
(***************************************************************************)
File(nm, c, pr, isint, n) == [name |-> nm, colons |-> c, probe |-> pr, nbint |-> isint, nb |-> n]

\* f"{file_path} : {n_frame}\n": the path's colons and the separator's
ManifestLine(f) == [colons |-> f.colons + 1, probe |-> f.probe, nbint |-> f.nbint, nb |-> f.nb]

\* the lines the loop body of save_mov_frame writes for file f
CatalogFile(f) ==
    IF f.name = "shadow" THEN << >>
    ELSE IF f.name # "mov" THEN << >>
    ELSE IF f.probe = "none" THEN << >>
    ELSE IF f.probe = "raise" THEN << >>
    ELSE <<ManifestLine(f)>>

\* for filename in os.listdir(folder_path): one iteration
CatalogStep ==
    /\ catStatus = "running"
    /\ catPos <= Len(listing)
    /\ manifest' = manifest \o CatalogFile(listing[catPos])
    /\ catPos' = catPos + 1
    /\ UNCHANGED <<listing, catStatus, exPos, exStatus, exError, exLog, selVars, trimVars>>

\* save_mov_frame returns and the script calls extract_frames, which reads
\* the manifest
CatalogReturn ==
    /\ catStatus = "running"
    /\ catPos > Len(listing)
    /\ catStatus' = "done"
    /\ exStatus' = "running"
    /\ UNCHANGED <<listing, catPos, manifest, exPos, exError, exLog, selVars, trimVars>>

----------------------------------------------------------------------------
(* The Extractor: extract_frames.                                          *)
(* What the environment does to one line is an outcome                     *)
(*   kind    "copy_fails", "probe_none", "probe_raises",                   *)
(*           "sidecar_open_fails", "sidecar_write_fails" (source.txt is    *)
(*           left without its JSON), "ffmpeg_fails", "ffmpeg_ok"           *)
(*   frames  the number of frame files the transcoder wrote                *)
(* The result of a line is the folder it leaves (or none), the message     *)
(* printed, and the exception that left the loop ("" if none).             *)
(***************************************************************************)

\* largest number of frame files the transcoder writes for one video
PipeMaxA == 11

\* nominal frame counts probed in the pipeline: one per row of the rule table
PipeNVals == {5, 6, 10, 20, 25, 250, 600}

Outcomes ==
    {[kind |-> k, frames |-> 0] :
        k \in {"copy_fails", "probe_none", "probe_raises",
               "sidecar_open_fails", "sidecar_write_fails"}}
    \cup {[kind |-> "ffmpeg_fails", frames |-> a] : a \in 0..PipeMaxA}
    \cup {[kind |-> "ffmpeg_ok", frames |-> a] : a \in 1..PipeMaxA}

NoFolder(msg) == [folder |-> << >>, msg |-> msg, err |-> ""]

\* the body of the for loop of extract_frames on line ln under outcome o;
\* the finally clause removes the scratch copy on every path through try
ExtractLine(ln, o) ==
    IF ln.colons = 0 THEN NoFolder("")
    ELSE IF ln.colons > 1
         THEN [folder |-> << >>, msg |-> "", err |-> "ValueError"]
    ELSE IF o.kind = "copy_fails" THEN NoFolder("ERROR")
    ELSE IF o.kind = "probe_none" THEN NoFolder("SKIP")
    ELSE IF o.kind = "probe_raises" THEN NoFolder("ERROR")
    ELSE IF ~ln.nbint THEN NoFolder("ERROR")
    ELSE IF o.kind = "sidecar_open_fails"
         THEN [folder |-> <<Entry("dir", "missing", 0, {}, << >>)>>,
               msg |-> "ERROR", err |-> ""]
    ELSE IF o.kind = "sidecar_write_fails"
         THEN [folder |-> <<Entry("dir", "badjson", 0, {}, << >>)>>,
               msg |-> "ERROR", err |-> ""]
    ELSE IF o.kind = "ffmpeg_fails"
         THEN [folder |-> <<Extracted("ok", ln.nb, o.frames)>>,
               msg |-> "ERROR", err |-> ""]
    ELSE [folder |-> <<Extracted("ok", ln.nb, o.frames)>>,
          msg |-> "EXTRACTED", err |-> ""]

\* shutil.copy2 has written the scratch copy tmp/<name>: the try statement
\* was entered and the copy did not fail
ScratchCopied(ln, o) == ln.colons = 1 /\ o.kind # "copy_fails"

\* the finally clause runs on every path that entered the try statement and
\* unlinks the scratch copy when it exists
FinallyRuns(ln, o) == ln.colons = 1

\* the scratch copy is still there when the loop body is left
ScratchLeft(ln, o) == ScratchCopied(ln, o) /\ ~FinallyRuns(ln, o)

\* for line in lines: one iteration
ExtractStep ==
    /\ exStatus = "running"
    /\ exPos <= Len(manifest)
    /\ \E o \in Outcomes :
        LET r == ExtractLine(manifest[exPos], o) IN
        /\ root' = root \o r.folder
        /\ exLog' = Append(exLog, [msg |-> r.msg, err |-> r.err,
                                   folder |-> IF r.folder = << >> THEN 0 ELSE Len(root) + 1,
                                   scratch |-> ScratchLeft(manifest[exPos], o)])
        /\ exStatus' = IF r.err # "" THEN "raised" ELSE "running"
        /\ exError' = r.err
        /\ exPos' = IF r.err # "" THEN exPos ELSE exPos + 1
    /\ UNCHANGED <<before, orgPos, orgStatus, orgError, orgRun, prevStatus,
                   listing, catPos, catStatus, manifest, trimVars>>

\* extract_frames returns and the script calls organize_frame_folders
ExtractReturn ==
    /\ exStatus = "running"
    /\ exPos > Len(manifest)
    /\ exStatus' = "done"
    /\ orgStatus' = "running"
    /\ orgRun' = 1
    /\ before' = root
    /\ UNCHANGED <<root, orgPos, orgError, prevStatus,
                   listing, catPos, catStatus, manifest, exPos, exError, exLog, trimVars>>

----------------------------------------------------------------------------
(* Specification SpecPipe: the script's three steps on an input directory  *)
(* of two files.                                                           *)
(***************************************************************************)

Files ==
    {File("shadow", 0, "ok", TRUE, 0), File("other", 0, "ok", TRUE, 0)}
    \cup {File("mov", c, pr, TRUE, 0) : c \in {0, 1}, pr \in {"none", "raise"}}
    \cup {File("mov", c, "ok", FALSE, 0) : c \in {0, 1}}
    \cup {File("mov", c, "ok", TRUE, n) : c \in {0, 1}, n \in PipeNVals}

InitPipe ==
    /\ listing \in {<<f, g>> : f \in Files, g \in Files}
    /\ catPos = 1 /\ catStatus = "running" /\ manifest = << >>
    /\ exPos = 1 /\ exStatus = "idle" /\ exError = "" /\ exLog = << >>
    /\ root = << >> /\ before = << >>
    /\ orgPos = 1 /\ orgStatus = "idle" /\ orgError = "" /\ orgRun = 0
    /\ prevStatus = "idle"
    /\ TrimIdle

NextPipe ==
    \/ CatalogStep \/ CatalogReturn
    \/ ExtractStep \/ ExtractReturn
    \/ OrganizeStep \/ OrganizeReturn

SpecPipe == InitPipe /\ [][NextPipe]_vars

----------------------------------------------------------------------------
(* The Range Trimmer: main() of video_trimmer.py after parse_args.         *)
(***************************************************************************)

\* f"trimmed_{Path(input_path).name}"
DerivedName(input) == "trimmed_" \o input

\* lines 69-80 of main: the input must exist; the output path is the given
\* one, or the derived name when none (or an empty one) was given
TrimCheck ==
    /\ trimPc = "main"
    /\ IF ~trimArgs.exists
       THEN /\ trimPc' = "exited"
            /\ exitCode' = 1
            /\ UNCHANGED output_path
       ELSE /\ trimPc' = "trim"
            /\ output_path' = IF trimArgs.output # "" THEN trimArgs.output
                              ELSE DerivedName(trimArgs.input)
            /\ UNCHANGED exitCode
    /\ UNCHANGED <<trimArgs, trimResult, selVars, pipeVars>>

\* trim_video_with_copy: True when the transcoder's returncode is 0
trim_video_with_copy(outcome) == IF outcome = "rc0" THEN "ok"
                                 ELSE IF outcome = "rc1" THEN "failed"
                                 ELSE "error"

\* the exit code of main() after the trim: it prints a message for either
\* result and returns
ExitAfterTrim(result) == 0

\* lines 82-87 of main: run the trim, report, return
TrimRun ==
    /\ trimPc = "trim"
    /\ \E outcome \in {"rc0", "rc1", "raises"} :
        /\ trimResult' = trim_video_with_copy(outcome)
        /\ exitCode' = ExitAfterTrim(trim_video_with_copy(outcome))
    /\ trimPc' = "exited"
    /\ UNCHANGED <<trimArgs, output_path, selVars, pipeVars>>

InitTrim ==
    /\ trimArgs \in [input : {"a.mov", "b.mkv", "c.mp4"}, exists : BOOLEAN,
                     output : {"", "out.mov"},
                     start : {"0", "12.5", "00:00:05"},
                     end : {"30", "00:01:00", "00:00:05"}]
    /\ trimPc = "main" /\ trimResult = "none" /\ output_path = "" /\ exitCode = -1
    /\ root = << >> /\ before = << >>
    /\ orgPos = 1 /\ orgStatus = "idle" /\ orgError = "" /\ orgRun = 0
    /\ prevStatus = "idle"
    /\ PipeIdle

NextTrim == TrimCheck \/ TrimRun

SpecTrim == InitTrim /\ [][NextTrim]_vars

----------------------------------------------------------------------------
(* Vocabulary of the properties. b is an entry as it was when the run      *)
(* began (before[i]); root[i] is the same entry now.                       *)
(***************************************************************************)

\* the Selector has executed its loop body on entry i in the current run
Acted(i) == i < orgPos \/ (orgStatus = "raised" /\ i = orgPos)

\* ... and went on to the next entry (no exception left the loop)
Continued(i) == i < orgPos

\* a per-video folder whose sidecar parses to a nominal count N
Parsable(b) == b.kind = "dir" /\ b.sidecar \in {"ok", "nokey"}
Nominal(b) == IF b.sidecar = "nokey" THEN 0 ELSE b.nb
Available(b) == Cardinality(b.loose)

\* 0-based index of frame f among the available frames of b
IndexOf(b, f) == Cardinality({g \in b.loose : g < f})

\* the available frames of b whose 0-based index lies in [lo, hi)
FramesAt(b, lo, hi) == {f \in b.loose : lo <= IndexOf(b, f) /\ IndexOf(b, f) < hi}

Entries == 1..Len(before)

----------------------------------------------------------------------------
\* C1: for every folder with nominal count N >= 600 and available count
\* A >= 5 the Selector produces exactly the five subfolders 001..005,
\* subfolder k holding the available frames of index [s_k, s_k + 20) for
\* s = 5, 151, 297, 443, 589, and deletes every other loose frame.
C1_FiveWindows ==
    \A i \in Entries :
        LET b == before[i] IN
        (Acted(i) /\ Parsable(b) /\ Nominal(b) >= 600 /\ Available(b) >= 5)
        => /\ Continued(i)
           /\ root[i].kind = "dir"
           /\ root[i].loose = {}
           /\ root[i].subs = <<FramesAt(b, 5, 25), FramesAt(b, 151, 171),
                               FramesAt(b, 297, 317), FramesAt(b, 443, 463),
                               FramesAt(b, 589, 609)>>

\* C2: a second run of the Selector on a folder that a completed first run
\* has already sorted (valid sidecar, no loose frame, only numbered subfolders
\* with their frames) leaves the folder, its sidecar and its subfolders
\* unchanged.
C2_Idempotent ==
    \A i \in Entries :
        LET b == before[i] IN
        (Acted(i) /\ prevStatus = "done"
                  /\ Parsable(b) /\ b.loose = {} /\ Len(b.subs) >= 1)
        => root[i] = b

C4_AllFramesAnyA ==
    \A i \in Entries :
        LET b == before[i] IN
        (Acted(i) /\ Parsable(b) /\ 10 <= Nominal(b) /\ Nominal(b) <= 19)
        => /\ Continued(i)
           /\ root[i].kind = "dir"
           /\ root[i].subs = <<b.loose>>

\* C4 as amended: for 10 <= N <= 19 and every available count A >= 5,
\* exactly one subfolder is produced and it holds all A available frames.
C4_AllFrames ==
    \A i \in Entries :
        LET b == before[i] IN
        (Acted(i) /\ Parsable(b) /\ 10 <= Nominal(b) /\ Nominal(b) <= 19
                  /\ Available(b) >= 5)
        => /\ Continued(i)
           /\ root[i].kind = "dir"
           /\ root[i].loose = {}
           /\ root[i].subs = <<b.loose>>
           /\ Cardinality(root[i].subs[1]) = Available(b)

\* a state where the 10-19 rule has acted on a folder with more frames than N
C4_Witness ==
    \E i \in Entries :
        /\ Continued(i) /\ Parsable(before[i])
        /\ before[i].nb = 10 /\ Available(before[i]) = 30
        /\ Len(root[i].subs) = 1

\* C5: a folder with a parsable sidecar and A < 5 or N <= 5 is removed
\* entirely (sidecar, frames, subfolders), no numbered subfolder is created,
\* and the Selector continues with the next folder.
C5_RemovalGuard ==
    \A i \in Entries :
        LET b == before[i] IN
        (Acted(i) /\ Parsable(b) /\ (Available(b) < 5 \/ Nominal(b) <= 5))
        => /\ Continued(i)
           /\ root[i] = Gone

\* a state where two folders were removed: one for A = 3 with N > 5, one for
\* N = 4 with A >= 5
C5_Witness ==
    \E i, j \in Entries :
        /\ Continued(i) /\ Continued(j)
        /\ Parsable(before[i]) /\ Available(before[i]) = 3 /\ Nominal(before[i]) > 5
        /\ Parsable(before[j]) /\ Nominal(before[j]) = 4 /\ Available(before[j]) >= 5
        /\ root[i] = Gone /\ root[j] = Gone

\* the index range of a single-window literal row of the rule table
RowLo(N) == IF N <= 9 THEN 1 ELSE IF N <= 24 THEN 0 ELSE 5
RowHi(N) == IF N <= 9 THEN 6 ELSE IF N <= 24 THEN 20 ELSE 25
LiteralRow(N) == (6 <= N /\ N <= 9) \/ (20 <= N /\ N <= 24) \/ (25 <= N /\ N <= 249)

\* C6: for N in the rows 6-9, 20-24 and 25-249 and A >= 5, exactly one
\* subfolder is produced, holding the available frames whose index lies in
\* the row's range, and every other frame is deleted; for 6 <= N <= 9 and
\* A >= 6 it holds the 5 frames of index 1..5 and not the frame of index 0.
C6_SingleWindow ==
    \A i \in Entries :
        LET b == before[i]
            N == Nominal(b)
        IN  (Acted(i) /\ Parsable(b) /\ LiteralRow(N) /\ Available(b) >= 5)
            => /\ Continued(i)
               /\ root[i].kind = "dir"
               /\ root[i].loose = {}
               /\ root[i].subs = <<FramesAt(b, RowLo(N), RowHi(N))>>
               /\ (N <= 9 /\ Available(b) >= 6)
                    => /\ Cardinality(root[i].subs[1]) = 5
                       /\ FramesAt(b, 0, 1) \cap root[i].subs[1] = {}
                       /\ b.loose = 1..Available(b) => root[i].subs[1] = 2..6

\* a state where the 25-249 rule has kept the 20 frames of index 5..24 out of
\* 40, and the 6-9 rule the 5 frames of index 1..5 out of 7
C6_Witness ==
    \E i, j \in Entries :
        /\ Continued(i) /\ Parsable(before[i])
        /\ before[i].nb = 249 /\ Available(before[i]) = 40
        /\ root[i].subs = <<6..25>>
        /\ Continued(j) /\ Parsable(before[j])
        /\ before[j].nb = 6 /\ Available(before[j]) = 7
        /\ root[j].subs = <<2..6>>

\* C7: no batch loop is aborted by a failure on one item: whenever the
\* Cataloger, the Extractor or the Selector has ended, it has handled every
\* item of its input (every file, every manifest line, every folder).
C7_Isolation ==
    /\ catStatus \in {"done", "raised"} => catPos > Len(listing)
    /\ exStatus \in {"done", "raised"} => exPos > Len(manifest)
    /\ orgStatus \in {"done", "raised"} => orgPos > Len(root)

\* C8: the trimmer exits with code 0 exactly when the trim succeeded, and
\* with a non-zero code when the input is missing, when the transcoder
\* returns a non-zero status or when its invocation raises.
C8_ExitStatus ==
    trimPc = "exited" => (exitCode = 0 <=> trimResult = "ok")

\* C9: a folder without sidecar, or whose sidecar cannot be parsed, is left
\* unchanged by the Selector, which continues with the next folder.
C9_ConservativeSkip ==
    \A i \in Entries :
        LET b == before[i] IN
        (Acted(i) /\ b.kind = "dir" /\ b.sidecar \in {"missing", "badjson", "nonint"})
        => /\ Continued(i)
           /\ root[i] = b

\* a state where the Selector has passed a folder whose frame count is not an
\* integer and a folder without sidecar, each still holding its frames
C9_Witness ==
    \E i, j \in Entries :
        /\ Continued(i) /\ Continued(j)
        /\ before[i].sidecar = "nonint" /\ Available(before[i]) = 30
        /\ before[j].sidecar = "missing" /\ Available(before[j]) = 6
        /\ root[i].loose = 1..30 /\ root[j].loose = 1..6

\* C10: for every folder that passes the removal guard (A >= 5 and N > 5) no
\* move fails: the folder is processed to completion.
C10_NoMoveFails ==
    \A i \in Entries :
        LET b == before[i] IN
        (Acted(i) /\ Parsable(b) /\ Available(b) >= 5 /\ Nominal(b) > 5)
        => /\ Continued(i)
           /\ root[i].kind = "dir"
           /\ root[i].loose = {}

\* C11: once the Selector has finished a folder with a parsable sidecar,
\* either the whole folder has been removed or some numbered subfolder holds
\* at least one frame: a folder is never left with only empty subfolders and
\* all of its frames deleted.
C11_NoEmptyResult ==
    \A i \in Entries :
        (Continued(i) /\ Parsable(before[i]))
        => \/ root[i] = Gone
           \/ \E k \in 1..Len(root[i].subs) : root[i].subs[k] # {}

\* C12: for every manifest line whose processing failed (at the copy, the
\* probe, the sidecar write or the transcoder), once the line has been handled
\* no per-video folder of it is left under the output root, the scratch copy
\* has been removed, and the Extractor has gone on to the next line.
C12_NoPartialState ==
    \A k \in 1..Len(exLog) :
        exLog[k].msg \in {"SKIP", "ERROR"}
        => /\ exLog[k].folder = 0
           /\ ~exLog[k].scratch
           /\ k < exPos

====
